---- MODULE Spec2Model ----
(***************************************************************************)
(* Model of pkg/core of rediver-sdk: the process execution harness         *)
(* (ExecuteScanner, StreamScanner and their stream capturers) and the      *)
(* finding normalization helpers (SelectBestCVSS, ...).                    *)
(*                                                                         *)
(* One scanner invocation is a state machine: the calling goroutine (pc),  *)
(* the child process, the two OS pipes, the two capturer goroutines, the   *)
(* timeout context and the goroutine of os/exec that watches it.           *)
(* The helpers are operators, applied by the actions of their own          *)
(* specifications to inputs drawn by those specifications' Init.           *)
(***************************************************************************)
EXTENDS Integers, Sequences, FiniteSets, TLC

VARIABLES
    fn,        \* the function invoked: "ExecuteScanner" or "StreamScanner"
    cfg,       \* the *ExecConfig fields that drive the run: Timeout, Verbose
    handler,   \* the OutputHandler passed to StreamScanner: "nil" or "h"
    pc,        \* position of the calling goroutine in the function body
    ctx,       \* the timeout context: "none", "armed", "done", "canceled"
    watch,     \* os/exec's goroutine watching ctx: "off", "on", "fired"
    child,     \* the child: "none", "running", "blocked", "exited", "killed"
    status,    \* exit status of a child that exited on its own
    want,      \* the write(2) the child is blocked in: <<stream, byte>>, or <<>>
    wrote,     \* history: the bytes the child has written to each stream
    pipe,      \* bytes in flight in each OS pipe
    capSt,     \* each capturer goroutine: "idle", "running", "inhandler", "done"
    capLine,   \* each capturer's pending bytes (bufio buffer, current line)
    capBuf,    \* each capturer's accumulated buf
    console,   \* what fmt.Printf has echoed: sequence of <<prefix, line>>
    calls,     \* the handler invocations so far: sequence of <<line, isError>>
    result,    \* the *ExecResult returned: NilPtr, or Ptr(record)
    retErr,    \* the error returned next to it
    held,      \* descriptors and handles the calling process holds for the run
    arg,       \* input of a helper function under check
    ret        \* its result

runVars == <<fn, cfg, handler, pc, ctx, watch, child, status, want, wrote,
             pipe, capSt, capLine, capBuf, console, calls, result, retErr, held>>
vars == <<fn, cfg, handler, pc, ctx, watch, child, status, want, wrote,
          pipe, capSt, capLine, capBuf, console, calls, result, retErr, held,
          arg, ret>>

\* ------------------------------------------------------------------ bounds

\* total number of bytes the child writes over both streams
MaxWrite == 4
\* capacity of an OS pipe, in bytes
PipeCap == 1
\* bufio.MaxScanTokenSize (64 * 1024), scaled to the byte counts above
MaxScanTokenSize == 2

\* ------------------------------------------------------------- vocabulary

Nil == "nil"
\* a pointer is the empty sequence (nil) or the one-element sequence of its target
NilPtr == <<>>
Ptr(x) == <<x>>
Streams == {"stdout", "stderr"}
LF == "\n"
CR == "\r"
Byte == {"a", CR, LF}
ExitStatuses == {0, 2}
DeadlineExceeded == "context deadline exceeded"

\* exec.ExitError.ExitCode() of a process terminated by a signal
SignaledExitCode == 0 - 1

Empty == [s \in Streams |-> <<>>]

\* no writer is left on the pipe's write end: the parent closed its copy in
\* cmd.Start and the child's copy is closed when the child is gone
WritersGone == child \in {"exited", "killed"}

EOF(s) == pipe[s] = <<>> /\ WritersGone

Written == Len(wrote["stdout"]) + Len(wrote["stderr"])

\* deferred cancel() of context.WithTimeout, run on every return
Cancel(c) == IF c = "none" THEN "none" ELSE "canceled"

\* ------------------------------------------------ the calling goroutine

\* if cfg.Timeout > 0 { ctx, cancel = context.WithTimeout(...); defer cancel() }
WithTimeout ==
    /\ pc = "entry"
    /\ ctx' = IF cfg.Timeout > 0 THEN "armed" ELSE "none"
    /\ pc' = "stdoutpipe"
    /\ UNCHANGED <<fn, cfg, handler, watch, child, status, want, wrote, pipe,
                   capSt, capLine, capBuf, console, calls, result, retErr, arg, ret, held>>

\* the early return of a failed set-up step: return nil, fmt.Errorf(...)
ReturnNil(msg) ==
    /\ result' = NilPtr
    /\ retErr' = msg
    /\ ctx' = Cancel(ctx)
    /\ pc' = "returned"

\* the two descriptors of os.Pipe(): cmd keeps the read end for the caller and
\* the write end for the child until Start or Wait closes them
PipeEnds(s) == {<<s, "r">>, <<s, "w">>}
ReadEnds == {<<s, "r">> : s \in Streams}
ProcessHandle == <<"process", "handle">>

\* stdout, err := cmd.StdoutPipe(); os.Pipe may fail (descriptor limit)
StdoutPipe ==
    /\ pc = "stdoutpipe"
    /\ \E ok \in BOOLEAN :
         IF ok
         THEN /\ held' = held \cup PipeEnds("stdout")
              /\ pc' = "stderrpipe"
              /\ UNCHANGED <<ctx, result, retErr>>
         ELSE /\ ReturnNil("failed to create stdout pipe")
              /\ UNCHANGED held
    /\ UNCHANGED <<fn, cfg, handler, watch, child, status, want, wrote, pipe,
                   capSt, capLine, capBuf, console, calls, arg, ret>>

\* stderr, err := cmd.StderrPipe()
StderrPipe ==
    /\ pc = "stderrpipe"
    /\ \E ok \in BOOLEAN :
         IF ok
         THEN /\ held' = held \cup PipeEnds("stderr")
              /\ pc' = "start"
              /\ UNCHANGED <<ctx, result, retErr>>
         ELSE /\ ReturnNil("failed to create stderr pipe")
              /\ UNCHANGED held
    /\ UNCHANGED <<fn, cfg, handler, watch, child, status, want, wrote, pipe,
                   capSt, capLine, capBuf, console, calls, arg, ret>>

\* start := time.Now(); cmd.Start(). Start fails when the binary cannot be run
\* and when ctx is already done, and then closes every descriptor of cmd; on
\* success the child runs, the caller's copies of the write ends are closed,
\* the process handle is held and, when ctx can be done, os/exec starts the
\* goroutine that watches it.
Start ==
    /\ pc = "start"
    /\ \E ok \in BOOLEAN :
         /\ ctx = "done" => ~ok
         /\ IF ok
            THEN /\ child' = "running"
                 /\ watch' = IF ctx = "armed" THEN "on" ELSE "off"
                 /\ held' = ReadEnds \cup {ProcessHandle}
                 /\ pc' = "spawn"
                 /\ UNCHANGED <<ctx, result, retErr>>
            ELSE /\ ReturnNil("failed to start scanner")
                 /\ held' = {}
                 /\ UNCHANGED <<child, watch>>
    /\ UNCHANGED <<fn, cfg, handler, status, want, wrote, pipe,
                   capSt, capLine, capBuf, console, calls, arg, ret>>

\* wg.Add(2); go func() {...}(); go func() {...}()
Spawn ==
    /\ pc = "spawn"
    /\ capSt' = [s \in Streams |-> "running"]
    /\ pc' = "wgwait"
    /\ UNCHANGED <<fn, cfg, handler, ctx, watch, child, status, want, wrote, pipe,
                   capLine, capBuf, console, calls, result, retErr, arg, ret, held>>

\* mutant of WgWait: the caller goes on to cmd.Wait without the join
WgWaitNoJoin ==
    /\ pc = "wgwait"
    /\ pc' = "cmdwait"
    /\ UNCHANGED <<fn, cfg, handler, ctx, watch, child, status, want, wrote, pipe,
                   capSt, capLine, capBuf, console, calls, result, retErr, arg, ret, held>>

\* wg.Wait(): returns when both goroutines have run wg.Done()
WgWait ==
    /\ pc = "wgwait"
    /\ \A s \in Streams : capSt[s] = "done"
    /\ pc' = "cmdwait"
    /\ UNCHANGED <<fn, cfg, handler, ctx, watch, child, status, want, wrote, pipe,
                   capSt, capLine, capBuf, console, calls, result, retErr, arg, ret, held>>

\* The error of cmd.Wait(): an *exec.ExitError whenever the process state is
\* not a success (a non-zero status, or termination by a signal, whose
\* ExitCode() is -1); otherwise the error of the watching goroutine, if any.
WaitErr ==
    IF child = "killed" THEN [kind |-> "ExitError", code |-> SignaledExitCode]
    ELSE IF status # 0 THEN [kind |-> "ExitError", code |-> status]
    ELSE IF watch = "fired" THEN [kind |-> "error", code |-> 0]
    ELSE [kind |-> "nil", code |-> 0]

\* result := &ExecResult{...}; if err != nil { ExitError ? ExitCode : Error }
MakeResult(err) ==
    [ExitCode   |-> IF err.kind = "ExitError" THEN err.code ELSE 0,
     Stdout     |-> capBuf["stdout"],
     Stderr     |-> capBuf["stderr"],
     DurationMs |-> "elapsed",
     Error      |-> IF err.kind = "error" THEN DeadlineExceeded ELSE Nil]

\* err = cmd.Wait(), which blocks until the child is gone, reaps it, ends the
\* watching goroutine and closes the read ends; then the result is built and
\* returned (with the deferred cancel)
CmdWait ==
    /\ pc = "cmdwait"
    /\ child \in {"exited", "killed"}
    /\ watch' = "off"
    /\ held' = {}
    /\ result' = Ptr(MakeResult(WaitErr))
    /\ retErr' = Nil
    /\ ctx' = Cancel(ctx)
    /\ pc' = "returned"
    /\ UNCHANGED <<fn, cfg, handler, child, status, want, wrote, pipe,
                   capSt, capLine, capBuf, console, calls, arg, ret>>

\* ------------------------------------------------- the timeout context

\* the deadline of context.WithTimeout passes
Deadline ==
    /\ ctx = "armed"
    /\ pc # "returned"
    /\ ctx' = "done"
    /\ UNCHANGED <<fn, cfg, handler, pc, watch, child, status, want, wrote, pipe,
                   capSt, capLine, capBuf, console, calls, result, retErr, arg, ret, held>>

\* mutant of WatchCtx: the expiry is noted but the process is not killed
WatchCtxNoKill ==
    /\ watch = "on"
    /\ ctx = "done"
    /\ watch' = "fired"
    /\ UNCHANGED <<fn, cfg, handler, pc, ctx, child, status, want, wrote, pipe,
                   capSt, capLine, capBuf, console, calls, result, retErr, arg, ret, held>>

\* os/exec's watching goroutine sees ctx done and calls Process.Kill: a running
\* child dies; a child that has exited but is not yet reaped still takes the
\* signal, so the kill "succeeds" and ctx.Err() is kept for Wait either way.
WatchCtx ==
    /\ watch = "on"
    /\ ctx = "done"
    /\ watch' = "fired"
    /\ IF child \in {"running", "blocked"}
       THEN child' = "killed" /\ want' = <<>>
       ELSE UNCHANGED <<child, want>>
    /\ UNCHANGED <<fn, cfg, handler, pc, ctx, status, wrote, pipe,
                   capSt, capLine, capBuf, console, calls, result, retErr, arg, ret, held>>

\* ------------------------------------------------------- the child process

\* write(2) of one byte to a pipe with room
ChildWrite ==
    /\ child = "running"
    /\ Written < MaxWrite
    /\ \E s \in Streams, b \in Byte :
         /\ Len(pipe[s]) < PipeCap
         /\ pipe' = [pipe EXCEPT ![s] = Append(@, b)]
         /\ wrote' = [wrote EXCEPT ![s] = Append(@, b)]
    /\ UNCHANGED <<fn, cfg, handler, pc, ctx, watch, child, status, want,
                   capSt, capLine, capBuf, console, calls, result, retErr, arg, ret, held>>

\* write(2) to a full pipe: the child sleeps in the call
ChildBlock ==
    /\ child = "running"
    /\ Written < MaxWrite
    /\ \E s \in Streams, b \in Byte :
         /\ Len(pipe[s]) >= PipeCap
         /\ want' = <<s, b>>
    /\ child' = "blocked"
    /\ UNCHANGED <<fn, cfg, handler, pc, ctx, watch, status, wrote, pipe,
                   capSt, capLine, capBuf, console, calls, result, retErr, arg, ret, held>>

\* a reader made room: the blocked write completes
ChildUnblock ==
    /\ child = "blocked"
    /\ Len(pipe[want[1]]) < PipeCap
    /\ pipe' = [pipe EXCEPT ![want[1]] = Append(@, want[2])]
    /\ wrote' = [wrote EXCEPT ![want[1]] = Append(@, want[2])]
    /\ child' = "running"
    /\ want' = <<>>
    /\ UNCHANGED <<fn, cfg, handler, pc, ctx, watch, status,
                   capSt, capLine, capBuf, console, calls, result, retErr, arg, ret, held>>

\* the child exits on its own with some status
ChildExit ==
    /\ child = "running"
    /\ \E c \in ExitStatuses : status' = c
    /\ child' = "exited"
    /\ UNCHANGED <<fn, cfg, handler, pc, ctx, watch, want, wrote, pipe,
                   capSt, capLine, capBuf, console, calls, result, retErr, arg, ret, held>>

\* --------------------------------------------------- the stream capturers

Prefix(s) == s
IsError(s) == s = "stderr"

\* captureOutput, one pass of its loop that gets a byte: reader.ReadBytes('\n')
\* collects bytes up to and including the delimiter; a complete line is
\* appended to buf and, when stream is set, echoed with its prefix
CaptureRead(s) ==
    /\ fn = "ExecuteScanner"
    /\ capSt[s] = "running"
    /\ pipe[s] # <<>>
    /\ pipe' = [pipe EXCEPT ![s] = Tail(@)]
    /\ LET line == Append(capLine[s], Head(pipe[s]))
       IN IF Head(pipe[s]) = LF
          THEN /\ capBuf' = [capBuf EXCEPT ![s] = @ \o line]
               /\ capLine' = [capLine EXCEPT ![s] = <<>>]
               /\ console' = IF cfg.Verbose
                             THEN Append(console, <<Prefix(s), line>>)
                             ELSE console
          ELSE /\ capLine' = [capLine EXCEPT ![s] = line]
               /\ UNCHANGED <<capBuf, console>>
    /\ UNCHANGED <<fn, cfg, handler, pc, ctx, watch, child, status, want, wrote,
                   capSt, calls, result, retErr, arg, ret, held>>

\* captureOutput at end-of-stream: ReadBytes returns what it has with io.EOF;
\* a non-empty rest is appended (and echoed), the loop breaks, buf is returned
\* and the goroutine runs wg.Done()
CaptureEOF(s) ==
    /\ fn = "ExecuteScanner"
    /\ capSt[s] = "running"
    /\ EOF(s)
    /\ IF Len(capLine[s]) > 0
       THEN /\ capBuf' = [capBuf EXCEPT ![s] = @ \o capLine[s]]
            /\ console' = IF cfg.Verbose
                          THEN Append(console, <<Prefix(s), capLine[s]>>)
                          ELSE console
       ELSE UNCHANGED <<capBuf, console>>
    /\ capLine' = [capLine EXCEPT ![s] = <<>>]
    /\ capSt' = [capSt EXCEPT ![s] = "done"]
    /\ UNCHANGED <<fn, cfg, handler, pc, ctx, watch, child, status, want, wrote,
                   pipe, calls, result, retErr, arg, ret, held>>

\* bufio.ScanLines' dropCR: a trailing carriage return is not part of the token
DropCR(data) ==
    IF Len(data) > 0 /\ data[Len(data)] = CR
    THEN SubSeq(data, 1, Len(data) - 1)
    ELSE data

\* the body of streamWithHandler's loop for one token: line := scanner.Text();
\* buf = append(buf, line+"\n"); if handler != nil { handler(line, isError) }.
\* The goroutine is inside the handler until the handler returns, and is then
\* where the loop goes on (next: "running", or "done" after the final token).
Deliver(s, line, next) ==
    /\ capBuf' = [capBuf EXCEPT ![s] = @ \o Append(line, LF)]
    /\ calls' = IF handler # "nil" THEN Append(calls, <<line, IsError(s)>>) ELSE calls
    /\ capSt' = [capSt EXCEPT ![s] = IF handler # "nil" THEN "inhandler" ELSE next]

\* the handler returns to the loop of streamWithHandler, which calls Scan()
\* again
HandlerReturn(s) ==
    /\ capSt[s] = "inhandler"
    /\ capSt' = [capSt EXCEPT ![s] = "running"]
    /\ UNCHANGED <<fn, cfg, handler, pc, ctx, watch, child, status, want, wrote,
                   pipe, capLine, capBuf, console, calls, result, retErr, arg, ret, held>>

\* streamWithHandler: the Scanner takes a byte into its buffer; a newline
\* completes a token, which is delivered without its terminator
ScanRead(s) ==
    /\ fn = "StreamScanner"
    /\ capSt[s] = "running"
    /\ pipe[s] # <<>>
    /\ Len(capLine[s]) < MaxScanTokenSize
    /\ pipe' = [pipe EXCEPT ![s] = Tail(@)]
    /\ IF Head(pipe[s]) = LF
       THEN /\ Deliver(s, DropCR(capLine[s]), "running")
            /\ capLine' = [capLine EXCEPT ![s] = <<>>]
       ELSE /\ capLine' = [capLine EXCEPT ![s] = Append(@, Head(pipe[s]))]
            /\ UNCHANGED <<capBuf, calls, capSt>>
    /\ UNCHANGED <<fn, cfg, handler, pc, ctx, watch, child, status, want, wrote,
                   console, result, retErr, arg, ret, held>>

\* streamWithHandler: the Scanner's buffer holds MaxScanTokenSize bytes and no
\* newline: Scan() fails with ErrTooLong and returns false, the loop ends, buf
\* is returned and the goroutine runs wg.Done(); the pipe is read no further
ScanTooLong(s) ==
    /\ fn = "StreamScanner"
    /\ capSt[s] = "running"
    /\ Len(capLine[s]) >= MaxScanTokenSize
    /\ capSt' = [capSt EXCEPT ![s] = "done"]
    /\ UNCHANGED <<fn, cfg, handler, pc, ctx, watch, child, status, want, wrote,
                   pipe, capLine, capBuf, console, calls, result, retErr, arg, ret, held>>

\* streamWithHandler at end-of-stream: a non-empty rest is the final token;
\* then Scan() returns false
ScanEOF(s) ==
    /\ fn = "StreamScanner"
    /\ capSt[s] = "running"
    /\ Len(capLine[s]) < MaxScanTokenSize
    /\ EOF(s)
    /\ IF Len(capLine[s]) > 0
       THEN Deliver(s, DropCR(capLine[s]), "done")
       ELSE /\ capSt' = [capSt EXCEPT ![s] = "done"]
            /\ UNCHANGED <<capBuf, calls>>
    /\ capLine' = [capLine EXCEPT ![s] = <<>>]
    /\ UNCHANGED <<fn, cfg, handler, pc, ctx, watch, child, status, want, wrote,
                   pipe, console, result, retErr, arg, ret, held>>

\* -------------------------------------------------------- specification

\* a call of ExecuteScanner(ctx, cfg) or StreamScanner(ctx, cfg, handler) is
\* entered; Verbose is read by ExecuteScanner only, handler by StreamScanner
Init ==
    /\ fn \in {"ExecuteScanner", "StreamScanner"}
    /\ cfg \in [Timeout : {0, 100}, Verbose : BOOLEAN]
    /\ handler \in {"nil", "h"}
    /\ fn = "ExecuteScanner" => handler = "nil"
    /\ fn = "StreamScanner" => ~cfg.Verbose
    /\ pc = "entry"
    /\ ctx = "none"
    /\ watch = "off"
    /\ child = "none"
    /\ status = 0
    /\ want = <<>>
    /\ wrote = Empty
    /\ pipe = Empty
    /\ capSt = [s \in Streams |-> "idle"]
    /\ capLine = Empty
    /\ capBuf = Empty
    /\ console = <<>>
    /\ calls = <<>>
    /\ result = NilPtr
    /\ retErr = Nil
    /\ held = {}
    /\ arg = NilPtr
    /\ ret = NilPtr

Capture == \E s \in Streams : CaptureRead(s) \/ CaptureEOF(s)
Scan ==
    \E s \in Streams : ScanRead(s) \/ ScanTooLong(s) \/ ScanEOF(s) \/ HandlerReturn(s)
Caller == WithTimeout \/ StdoutPipe \/ StderrPipe \/ Start \/ Spawn \/ WgWait \/ CmdWait
Child == ChildWrite \/ ChildBlock \/ ChildUnblock \/ ChildExit

Next ==
    \/ WithTimeout
    \/ StdoutPipe
    \/ StderrPipe
    \/ Start
    \/ Spawn
    \/ WgWait
    \/ CmdWait
    \/ Deadline
    \/ WatchCtx
    \/ ChildWrite
    \/ ChildBlock
    \/ ChildUnblock
    \/ ChildExit
    \/ \E s \in Streams : CaptureRead(s)
    \/ \E s \in Streams : CaptureEOF(s)
    \/ \E s \in Streams : ScanRead(s)
    \/ \E s \in Streams : ScanTooLong(s)
    \/ \E s \in Streams : ScanEOF(s)
    \/ \E s \in Streams : HandlerReturn(s)

Spec == Init /\ [][Next]_vars

\* The Go scheduler runs every runnable goroutine, the timer of an armed
\* context fires, and the kernel delivers the kill; a handler that was called
\* returns; the child itself is under no obligation to write or to exit.
FairSpec ==
    /\ Spec
    /\ WF_vars(Caller)
    /\ WF_vars(Capture)
    /\ WF_vars(Scan)
    /\ WF_vars(Deadline)
    /\ WF_vars(WatchCtx)

\* ------------------------------------------- the helpers' specifications

\* the process runner at rest, for the specifications of the helpers
RunnerIdle ==
    /\ cfg = [Timeout |-> 0, Verbose |-> FALSE]
    /\ handler = "nil"
    /\ ctx = "none"
    /\ watch = "off"
    /\ child = "none"
    /\ status = 0
    /\ want = <<>>
    /\ wrote = Empty
    /\ pipe = Empty
    /\ capSt = [s \in Streams |-> "idle"]
    /\ capLine = Empty
    /\ capBuf = Empty
    /\ console = <<>>
    /\ calls = <<>>
    /\ result = NilPtr
    /\ retErr = Nil
    /\ held = {}

\* ---- building the command (ExecuteScanner lines 44-57, StreamScanner 149-153)

EnvKeys == {"HOME", "TOKEN"}
EnvVals == {"x", "y"}
\* cfg.Env: a map with unique keys
EnvMaps == UNION {[D -> EnvVals] : D \in SUBSET EnvKeys}
\* os.Environ() of the caller: a list of key=value entries
Environs ==
    { <<>>,
      << <<"HOME", "x">> >>,
      << <<"HOME", "x">>, <<"TOKEN", "x">> >>,
      << <<"TOKEN", "y">>, <<"HOME", "y">> >> }
CallerDir == "."

\* the orders in which range may visit the keys of a map
RangeOrders(m) ==
    {q \in [1 .. Cardinality(DOMAIN m) -> DOMAIN m] :
        \A i, j \in DOMAIN q : i # j => q[i] # q[j]}

\* the environment a started child gets from cmd.Env: the caller's when
\* cmd.Env is nil, and for a key given several times the last entry wins
ChildEnv(cmd, environ) ==
    LET list == IF cmd.Env = NilPtr THEN environ ELSE cmd.Env[1]
        keys == {list[i][1] : i \in DOMAIN list}
        Last(k) == CHOOSE i \in DOMAIN list :
                      /\ list[i][1] = k
                      /\ \A j \in DOMAIN list : list[j][1] = k => j <= i
    IN [k \in keys |-> list[Last(k)][2]]

\* the directory a started child runs in: the caller's when cmd.Dir is empty
ChildDir(cmd) == IF cmd.Dir = "" THEN CallerDir ELSE cmd.Dir

\* ExecuteScanner: cmd := exec.CommandContext(ctx, cfg.Binary, cfg.Args...);
\* cmd.Dir = cfg.WorkDir when set; when cfg.Env has entries, cmd.Env is
\* cmd.Environ() followed by one k=v entry per key of cfg.Env
ExecuteScannerCmd ==
    /\ pc = "call"
    /\ fn = "ExecuteScanner"
    /\ \E order \in RangeOrders(arg.Env) :
         ret' = Ptr([Path |-> arg.Binary,
                     Args |-> arg.Args,
                     Dir  |-> IF arg.WorkDir # "" THEN arg.WorkDir ELSE "",
                     Env  |-> IF Cardinality(DOMAIN arg.Env) > 0
                              THEN Ptr(arg.Environ \o
                                       [i \in DOMAIN order |->
                                           <<order[i], arg.Env[order[i]]>>])
                              ELSE NilPtr])
    /\ pc' = "done"
    /\ UNCHANGED <<fn, cfg, handler, ctx, watch, child, status, want, wrote, pipe,
                   capSt, capLine, capBuf, console, calls, result, retErr, arg, held>>

\* StreamScanner: cmd := exec.CommandContext(ctx, cfg.Binary, cfg.Args...);
\* cmd.Dir = cfg.WorkDir when set; cmd.Env is left nil
StreamScannerCmd ==
    /\ pc = "call"
    /\ fn = "StreamScanner"
    /\ ret' = Ptr([Path |-> arg.Binary,
                   Args |-> arg.Args,
                   Dir  |-> IF arg.WorkDir # "" THEN arg.WorkDir ELSE "",
                   Env  |-> NilPtr])
    /\ pc' = "done"
    /\ UNCHANGED <<fn, cfg, handler, ctx, watch, child, status, want, wrote, pipe,
                   capSt, capLine, capBuf, console, calls, result, retErr, arg, held>>

InitCmd ==
    /\ RunnerIdle
    /\ fn \in {"ExecuteScanner", "StreamScanner"}
    /\ pc = "call"
    /\ arg \in [Binary : {"trivy"},
                Args : {<<>>, <<"fs", "--format=json">>},
                WorkDir : {"", "/repo"},
                Env : EnvMaps,
                Environ : Environs]
    /\ ret = NilPtr

NextCmd ==
    \/ ExecuteScannerCmd
    \/ StreamScannerCmd

SpecCmd == InitCmd /\ [][NextCmd]_vars

\* ---- CVSS selection

CVSSSourceNVD == "nvd"
CVSSSourceGHSA == "ghsa"
CVSSSourceRedHat == "redhat"
CVSSSourceBitnami == "bitnami"

\* mutant of CVSSPriority: two neighbours of the table exchanged
CVSSPrioritySwapped ==
    <<CVSSSourceNVD, CVSSSourceRedHat, CVSSSourceGHSA, CVSSSourceBitnami>>

CVSSPriority ==
    <<CVSSSourceNVD, CVSSSourceGHSA, CVSSSourceRedHat, CVSSSourceBitnami>>

\* for _, source := range CVSSPriority { if data, ok := cvssMap[source];
\* ok && data.Score > 0 { return &data } }; return nil
RECURSIVE SelectFrom(_, _)
SelectFrom(i, cvssMap) ==
    IF i > Len(CVSSPriority) THEN NilPtr
    ELSE IF CVSSPriority[i] \in DOMAIN cvssMap /\ cvssMap[CVSSPriority[i]].Score > 0
         THEN Ptr(cvssMap[CVSSPriority[i]])
         ELSE SelectFrom(i + 1, cvssMap)

SelectBestCVSS(cvssMap) == SelectFrom(1, cvssMap)

\* the keys a caller may use (CVSSSource is a string type: one key is outside
\* the priority table) and the scores, in tenths of a point
CVSSKeys == {CVSSSourceNVD, CVSSSourceGHSA, CVSSSourceRedHat, CVSSSourceBitnami, "osv"}
CVSSScores == {0 - 10, 0, 50, 90}
CVSSMaps ==
    UNION {[D -> CVSSScores] : D \in SUBSET CVSSKeys}
CVSSRecord(source, score) == [Source |-> source, Score |-> score, Vector |-> "CVSS:3.1"]

CallSelectBestCVSS ==
    /\ pc = "call"
    /\ ret' = SelectBestCVSS(arg)
    /\ pc' = "done"
    /\ UNCHANGED <<fn, cfg, handler, ctx, watch, child, status, want, wrote, pipe,
                   capSt, capLine, capBuf, console, calls, result, retErr, arg, held>>

InitCVSS ==
    /\ RunnerIdle
    /\ fn = "SelectBestCVSS"
    /\ pc = "call"
    /\ \E m \in CVSSMaps : arg = [k \in DOMAIN m |-> CVSSRecord(k, m[k])]
    /\ ret = NilPtr

NextCVSS == CallSelectBestCVSS

SpecCVSS == InitCVSS /\ [][NextCVSS]_vars

\* ---- fingerprints

\* strings are sequences of one-character strings
Colon == <<":">>

\* the verb %d of fmt.Sprintf: the decimal digits, with a minus sign below zero
Digits == <<"0", "1", "2", "3", "4", "5", "6", "7", "8", "9">>
RECURSIVE FormatNat(_)
FormatNat(n) ==
    IF n < 10 THEN <<Digits[n + 1]>>
    ELSE Append(FormatNat(n \div 10), Digits[(n % 10) + 1])
FormatInt(n) == IF n < 0 THEN <<"-">> \o FormatNat(0 - n) ELSE FormatNat(n)

\* h := sha256.Sum256([]byte(s)); return hex.EncodeToString(h[:]). The digest
\* is taken as collision-free: it stands for the string it was computed from.
hashString(s) == <<"sha256", s>>

\* mutant of GenerateSastFingerprint: the rule is left out of the data
GenerateSastFingerprintNoRule(file, ruleID, startLine) ==
    hashString(file \o Colon \o FormatInt(startLine))

\* raw := fmt.Sprintf("%s:%s:%d", file, ruleID, startLine)
GenerateSastFingerprint(file, ruleID, startLine) ==
    hashString(file \o Colon \o ruleID \o Colon \o FormatInt(startLine))

\* raw := fmt.Sprintf("%s:%s:%s", pkgName, pkgVersion, vulnID)
GenerateScaFingerprint(pkgName, pkgVersion, vulnID) ==
    hashString(pkgName \o Colon \o pkgVersion \o Colon \o vulnID)

\* the arguments of one call: strings over a digit and the delimiter, of at
\* most MaxFpChars characters together, and line numbers of one and two
\* digits on both sides of zero
MaxFpChars == 2
FpChars == {"1", ":"}
FpStrings == UNION {[1 .. n -> FpChars] : n \in 0 .. MaxFpChars}
StartLines == {0 - 1, 0, 1, 11}
SastArgs ==
    {t \in FpStrings \X FpStrings \X StartLines :
        Len(t[1]) + Len(t[2]) <= MaxFpChars}
ScaArgs ==
    {t \in FpStrings \X FpStrings \X FpStrings :
        Len(t[1]) + Len(t[2]) + Len(t[3]) <= MaxFpChars}

CallGenerateSastFingerprint ==
    /\ pc = "call"
    /\ fn = "GenerateSastFingerprint"
    /\ ret' = <<GenerateSastFingerprint(arg[1][1], arg[1][2], arg[1][3]),
                GenerateSastFingerprint(arg[2][1], arg[2][2], arg[2][3])>>
    /\ pc' = "done"
    /\ UNCHANGED <<fn, cfg, handler, ctx, watch, child, status, want, wrote, pipe,
                   capSt, capLine, capBuf, console, calls, result, retErr, arg, held>>

CallGenerateScaFingerprint ==
    /\ pc = "call"
    /\ fn = "GenerateScaFingerprint"
    /\ ret' = <<GenerateScaFingerprint(arg[1][1], arg[1][2], arg[1][3]),
                GenerateScaFingerprint(arg[2][1], arg[2][2], arg[2][3])>>
    /\ pc' = "done"
    /\ UNCHANGED <<fn, cfg, handler, ctx, watch, child, status, want, wrote, pipe,
                   capSt, capLine, capBuf, console, calls, result, retErr, arg, held>>

\* two calls of one of the two functions, each with its own arguments
InitFP ==
    /\ RunnerIdle
    /\ pc = "call"
    /\ \/ /\ fn = "GenerateSastFingerprint"
          /\ arg \in SastArgs \X SastArgs
       \/ /\ fn = "GenerateScaFingerprint"
          /\ arg \in ScaArgs \X ScaArgs
    /\ ret = NilPtr

NextFP == CallGenerateSastFingerprint \/ CallGenerateScaFingerprint

SpecFP == InitFP /\ [][NextFP]_vars

\* ---- severity from a CVSS score

\* scores are in thousandths of a point (9.0 is 9000, 8.999 is 8999)
\* mutant of SeverityFromCVSS: the first bound taken as exclusive
SeverityFromCVSSExclusive(score) ==
    IF score > 9000 THEN "critical"
    ELSE IF score >= 7000 THEN "high"
    ELSE IF score >= 4000 THEN "medium"
    ELSE IF score > 0 THEN "low"
    ELSE "info"

\* switch { case score >= 9.0: ... case score >= 7.0: ... case score >= 4.0:
\* ... case score > 0: ... default: ... }
SeverityFromCVSS(score) ==
    IF score >= 9000 THEN "critical"
    ELSE IF score >= 7000 THEN "high"
    ELSE IF score >= 4000 THEN "medium"
    ELSE IF score > 0 THEN "low"
    ELSE "info"

\* the scores of a call: within ScoreWin thousandths of each bound of the
\* switch, and one well below zero and one at the top of the scale
ScoreWin == 1
ScoreBounds == {0, 4000, 7000, 9000}
Scores ==
    {b + d : b \in ScoreBounds, d \in (0 - ScoreWin) .. ScoreWin}
        \cup {0 - 1000, 10000}

CallSeverityFromCVSS ==
    /\ pc = "call"
    /\ ret' = <<SeverityFromCVSS(arg[1]), SeverityFromCVSS(arg[2])>>
    /\ pc' = "done"
    /\ UNCHANGED <<fn, cfg, handler, ctx, watch, child, status, want, wrote, pipe,
                   capSt, capLine, capBuf, console, calls, result, retErr, arg, held>>

\* two calls, each with its own score
InitSeverity ==
    /\ RunnerIdle
    /\ fn = "SeverityFromCVSS"
    /\ pc = "call"
    /\ arg \in Scores \X Scores
    /\ ret = NilPtr

NextSeverity == CallSeverityFromCVSS

SpecSeverity == InitSeverity /\ [][NextSeverity]_vars

\* ---- severity from a scanner's word

\* unicode.ToUpper on the letters of ASCII; every other character is kept
LowerLetters == <<"a", "b", "c", "d", "e", "f", "g", "h", "i", "j", "k", "l", "m">> \o
    <<"n", "o", "p", "q", "r", "s", "t", "u", "v", "w", "x", "y", "z">>
UpperLetters == <<"A", "B", "C", "D", "E", "F", "G", "H", "I", "J", "K", "L", "M">> \o
    <<"N", "O", "P", "Q", "R", "S", "T", "U", "V", "W", "X", "Y", "Z">>
ToUpperChar(c) ==
    IF \E i \in 1 .. 26 : LowerLetters[i] = c
    THEN UpperLetters[CHOOSE i \in 1 .. 26 : LowerLetters[i] = c]
    ELSE c
ToUpper(s) == [i \in 1 .. Len(s) |-> ToUpperChar(s[i])]

\* strings.TrimSpace: the leading and the trailing white space is cut
WhiteSpace == {" ", "\t", LF, CR}
RECURSIVE TrimLeft(_)
TrimLeft(s) ==
    IF s # <<>> /\ Head(s) \in WhiteSpace THEN TrimLeft(Tail(s)) ELSE s
RECURSIVE TrimRight(_)
TrimRight(s) ==
    IF s # <<>> /\ s[Len(s)] \in WhiteSpace
    THEN TrimRight(SubSeq(s, 1, Len(s) - 1))
    ELSE s
TrimSpace(s) == TrimRight(TrimLeft(s))

\* the words of the switch
WordCritical == <<"C", "R", "I", "T", "I", "C", "A", "L">>
WordHigh == <<"H", "I", "G", "H">>
WordError == <<"E", "R", "R", "O", "R">>
WordMedium == <<"M", "E", "D", "I", "U", "M">>
WordModerate == <<"M", "O", "D", "E", "R", "A", "T", "E">>
WordWarning == <<"W", "A", "R", "N", "I", "N", "G">>
WordLow == <<"L", "O", "W">>
WordInfo == <<"I", "N", "F", "O">>
WordInformational == <<"I", "N", "F", "O", "R", "M", "A", "T", "I", "O", "N", "A", "L">>
WordNote == <<"N", "O", "T", "E">>

\* the switch on a word that has been trimmed and upper-cased
SeveritySwitch(s) ==
    IF s = WordCritical THEN "critical"
    ELSE IF s \in {WordHigh, WordError} THEN "high"
    ELSE IF s \in {WordMedium, WordModerate, WordWarning} THEN "medium"
    ELSE IF s = WordLow THEN "low"
    ELSE IF s \in {WordInfo, WordInformational, WordNote} THEN "info"
    ELSE "info"

\* mutant of NormalizeSeverity: the white space is not trimmed
NormalizeSeverityNoTrim(severity) == SeveritySwitch(ToUpper(severity))

\* switch strings.ToUpper(strings.TrimSpace(severity)) { ... }
NormalizeSeverity(severity) == SeveritySwitch(ToUpper(TrimSpace(severity)))

\* what scanners send: the ten words of the switch and words that are none of
\* them (the empty word among them), each in upper case, in lower case and
\* capitalised, bare and with white space on either side or on both
SwitchWords ==
    {WordCritical, WordHigh, WordError, WordMedium, WordModerate, WordWarning,
     WordLow, WordInfo, WordInformational, WordNote}
OtherWords ==
    {<<>>,
     <<"U", "N", "K", "N", "O", "W", "N">>,
     <<"H", "I", "G", "H", "E", "R">>,
     <<"H", "I", " ", "G", "H">>,
     <<"C", "R", "I", "T">>,
     <<"L", "O", "W", "E", "S", "T">>,
     <<"S", "E", "V", "E", "R", "E">>,
     <<"N", "/", "A">>}
ToLowerChar(c) ==
    IF \E i \in 1 .. 26 : UpperLetters[i] = c
    THEN LowerLetters[CHOOSE i \in 1 .. 26 : UpperLetters[i] = c]
    ELSE c
Cased(w) ==
    {w,
     [i \in 1 .. Len(w) |-> ToLowerChar(w[i])],
     [i \in 1 .. Len(w) |-> IF i = 1 THEN w[i] ELSE ToLowerChar(w[i])]}
Padded(s) ==
    {s, <<" ">> \o s, s \o <<"\t">>, <<" ", LF>> \o s \o <<CR, LF>>}
TextsOf(w) == UNION {Padded(c) : c \in Cased(w)}
SeverityInputs ==
    UNION {{[word |-> w, text |-> t] : t \in TextsOf(w)} :
              w \in SwitchWords \cup OtherWords}

CallNormalizeSeverity ==
    /\ pc = "call"
    /\ ret' = NormalizeSeverity(arg.text)
    /\ pc' = "done"
    /\ UNCHANGED <<fn, cfg, handler, ctx, watch, child, status, want, wrote, pipe,
                   capSt, capLine, capBuf, console, calls, result, retErr, arg, held>>

\* one call; arg.word keeps the word the text was written from
InitNormalize ==
    /\ RunnerIdle
    /\ fn = "NormalizeSeverity"
    /\ pc = "call"
    /\ arg \in SeverityInputs
    /\ ret = NilPtr

NextNormalize == CallNormalizeSeverity

SpecNormalize == InitNormalize /\ [][NextNormalize]_vars

\* ---- the installation check

\* for i, c := range s { if c == '\n' || c == '\r' { return i } }; return -1
\* (Go counts from zero)
indexNewline(s) ==
    IF \E i \in 1 .. Len(s) : s[i] \in {LF, CR}
    THEN (CHOOSE i \in 1 .. Len(s) :
              /\ s[i] \in {LF, CR}
              /\ \A j \in 1 .. (i - 1) : s[j] \notin {LF, CR}) - 1
    ELSE 0 - 1

\* the arguments the binary is run with
VersionArgs(versionArgs) ==
    IF Len(versionArgs) = 0 THEN <<"--version">> ELSE versionArgs

\* output, err := cmd.Output(); if err != nil { return false, "", nil };
\* version := string(output); if idx := indexNewline(version); idx > 0
\* { version = version[:idx] }; return true, version, nil
CheckBinaryInstalled(versionArgs, output, failed) ==
    IF failed
    THEN [installed |-> FALSE, version |-> <<>>, err |-> Nil,
          ran |-> VersionArgs(versionArgs)]
    ELSE LET idx == indexNewline(output)
         IN [installed |-> TRUE,
             version |-> IF idx > 0 THEN SubSeq(output, 1, idx) ELSE output,
             err |-> Nil,
             ran |-> VersionArgs(versionArgs)]

\* what the probed command may do: fail (not found, non-zero exit, context
\* done), or succeed with some output of at most MaxOutputLen bytes
MaxOutputLen == 3
OutputBytes == {"v", LF, CR}
Outputs == UNION {[1 .. n -> OutputBytes] : n \in 0 .. MaxOutputLen}

CallCheckBinaryInstalled ==
    /\ pc = "call"
    /\ ret' = CheckBinaryInstalled(arg.versionArgs, arg.output, arg.failed)
    /\ pc' = "done"
    /\ UNCHANGED <<fn, cfg, handler, ctx, watch, child, status, want, wrote, pipe,
                   capSt, capLine, capBuf, console, calls, result, retErr, arg, held>>

InitCheck ==
    /\ RunnerIdle
    /\ fn = "CheckBinaryInstalled"
    /\ pc = "call"
    /\ arg \in [versionArgs : {<<>>, <<"-V">>}, output : Outputs, failed : BOOLEAN]
    /\ ret = NilPtr

NextCheck == CallCheckBinaryInstalled

SpecCheck == InitCheck /\ [][NextCheck]_vars

\* ---- masking

\* mutant of MaskSecret: edges are shown from six bytes on
MaskSecretFromSix(secret) ==
    IF Len(secret) <= 5
    THEN <<"*", "*", "*", "*">>
    ELSE SubSeq(secret, 1, 3) \o <<"*", "*", "*", "*">>
            \o SubSeq(secret, Len(secret) - 3 + 1, Len(secret))

\* if len(secret) <= 8 { return "****" }
\* return secret[:3] + "****" + secret[len(secret)-3:]
MaskSecret(secret) ==
    IF Len(secret) <= 8
    THEN <<"*", "*", "*", "*">>
    ELSE SubSeq(secret, 1, 3) \o <<"*", "*", "*", "*">>
            \o SubSeq(secret, Len(secret) - 3 + 1, Len(secret))

\* if len(key) <= 10 { return "****" }
\* return key[:4] + "..." + key[len(key)-4:]
MaskAPIKey(key) ==
    IF Len(key) <= 10
    THEN <<"*", "*", "*", "*">>
    ELSE SubSeq(key, 1, 4) \o <<".", ".", ".">>
            \o SubSeq(key, Len(key) - 4 + 1, Len(key))

\* the secrets of a call: every string of two bytes of at most MaxSecretLen
\* bytes
MaxSecretLen == 12
SecretBytes == {"x", "y"}
Secrets == UNION {[1 .. n -> SecretBytes] : n \in 0 .. MaxSecretLen}

CallMaskSecret ==
    /\ pc = "call"
    /\ fn = "MaskSecret"
    /\ ret' = MaskSecret(arg)
    /\ pc' = "done"
    /\ UNCHANGED <<fn, cfg, handler, ctx, watch, child, status, want, wrote, pipe,
                   capSt, capLine, capBuf, console, calls, result, retErr, arg, held>>

CallMaskAPIKey ==
    /\ pc = "call"
    /\ fn = "MaskAPIKey"
    /\ ret' = MaskAPIKey(arg)
    /\ pc' = "done"
    /\ UNCHANGED <<fn, cfg, handler, ctx, watch, child, status, want, wrote, pipe,
                   capSt, capLine, capBuf, console, calls, result, retErr, arg, held>>

InitMask ==
    /\ RunnerIdle
    /\ fn \in {"MaskSecret", "MaskAPIKey"}
    /\ pc = "call"
    /\ arg \in Secrets
    /\ ret = NilPtr

NextMask == CallMaskSecret \/ CallMaskAPIKey

SpecMask == InitMask /\ [][NextMask]_vars

\* ---- the package type of a manifest

PackageTypeMaven == "maven"
PackageTypeNPM == "npm"
PackageTypePyPI == "pip"
PackageTypeGo == "gomod"
PackageTypeCargo == "cargo"
PackageTypeNuGet == "nuget"
PackageTypeGem == "gem"
PackageTypeComposer == "composer"

\* strings.ToLower on the letters of ASCII
ToLower(s) == [i \in 1 .. Len(s) |-> ToLowerChar(s[i])]

\* strings.Contains
Contains(s, substr) ==
    \E i \in 0 .. (Len(s) - Len(substr)) : SubSeq(s, i + 1, i + Len(substr)) = substr

\* the switch on the lower-cased name: the first case with a marker in it
PackageSwitch(lower) ==
    IF \/ Contains(lower, <<"p", "o", "m", ".", "x", "m", "l">>)
            \/ Contains(lower, <<".", "p", "o", "m">>)
    THEN PackageTypeMaven
    ELSE IF \/ Contains(lower, <<"p", "a", "c", "k", "a", "g", "e", ".", "j", "s", "o", "n">>)
            \/ Contains(lower, <<"p", "a", "c", "k", "a", "g", "e", "-", "l", "o", "c", "k", ".", "j", "s", "o", "n">>)
            \/ Contains(lower, <<"y", "a", "r", "n", ".", "l", "o", "c", "k">>)
    THEN PackageTypeNPM
    ELSE IF \/ Contains(lower, <<"r", "e", "q", "u", "i", "r", "e", "m", "e", "n", "t", "s", ".", "t", "x", "t">>)
            \/ Contains(lower, <<"s", "e", "t", "u", "p", ".", "p", "y">>)
            \/ Contains(lower, <<"p", "i", "p", "f", "i", "l", "e">>)
            \/ Contains(lower, <<"p", "y", "p", "r", "o", "j", "e", "c", "t", ".", "t", "o", "m", "l">>)
    THEN PackageTypePyPI
    ELSE IF \/ Contains(lower, <<"g", "o", ".", "m", "o", "d">>)
            \/ Contains(lower, <<"g", "o", ".", "s", "u", "m">>)
    THEN PackageTypeGo
    ELSE IF \/ Contains(lower, <<"c", "a", "r", "g", "o", ".", "t", "o", "m", "l">>)
            \/ Contains(lower, <<"c", "a", "r", "g", "o", ".", "l", "o", "c", "k">>)
    THEN PackageTypeCargo
    ELSE IF \/ Contains(lower, <<".", "c", "s", "p", "r", "o", "j">>)
            \/ Contains(lower, <<"p", "a", "c", "k", "a", "g", "e", "s", ".", "c", "o", "n", "f", "i", "g">>)
            \/ Contains(lower, <<".", "n", "u", "s", "p", "e", "c">>)
    THEN PackageTypeNuGet
    ELSE IF \/ Contains(lower, <<"g", "e", "m", "f", "i", "l", "e">>)
            \/ Contains(lower, <<".", "g", "e", "m", "s", "p", "e", "c">>)
    THEN PackageTypeGem
    ELSE IF \/ Contains(lower, <<"c", "o", "m", "p", "o", "s", "e", "r", ".", "j", "s", "o", "n">>)
            \/ Contains(lower, <<"c", "o", "m", "p", "o", "s", "e", "r", ".", "l", "o", "c", "k">>)
    THEN PackageTypeComposer
    ELSE ""

\* mutant of DetectPackageType: the name is not lower-cased
DetectPackageTypeAsWritten(filename) == PackageSwitch(filename)

\* lower := strings.ToLower(filename); switch { ... }
DetectPackageType(filename) == PackageSwitch(ToLower(filename))

\* the names of a call: each marker bare, under a directory, in upper case
\* and with an extension behind it; names with two markers in them; and names
\* with no marker, the empty one and cut markers among them
MarkerNames ==
    {<<"p", "o", "m", ".", "x", "m", "l">>,
     <<".", "p", "o", "m">>,
     <<"p", "a", "c", "k", "a", "g", "e", ".", "j", "s", "o", "n">>,
     <<"p", "a", "c", "k", "a", "g", "e", "-", "l", "o", "c", "k", ".", "j", "s", "o", "n">>,
     <<"y", "a", "r", "n", ".", "l", "o", "c", "k">>,
     <<"r", "e", "q", "u", "i", "r", "e", "m", "e", "n", "t", "s", ".", "t", "x", "t">>,
     <<"s", "e", "t", "u", "p", ".", "p", "y">>,
     <<"p", "i", "p", "f", "i", "l", "e">>,
     <<"p", "y", "p", "r", "o", "j", "e", "c", "t", ".", "t", "o", "m", "l">>,
     <<"g", "o", ".", "m", "o", "d">>,
     <<"g", "o", ".", "s", "u", "m">>,
     <<"c", "a", "r", "g", "o", ".", "t", "o", "m", "l">>,
     <<"c", "a", "r", "g", "o", ".", "l", "o", "c", "k">>,
     <<".", "c", "s", "p", "r", "o", "j">>,
     <<"p", "a", "c", "k", "a", "g", "e", "s", ".", "c", "o", "n", "f", "i", "g">>,
     <<".", "n", "u", "s", "p", "e", "c">>,
     <<"g", "e", "m", "f", "i", "l", "e">>,
     <<".", "g", "e", "m", "s", "p", "e", "c">>,
     <<"c", "o", "m", "p", "o", "s", "e", "r", ".", "j", "s", "o", "n">>,
     <<"c", "o", "m", "p", "o", "s", "e", "r", ".", "l", "o", "c", "k">>}
NamesOf(m) == {m, <<"a", "/">> \o m, ToUpper(m), m \o <<".", "x">>}
TwoMarkerParts == {<<"g", "o", ".", "s", "u", "m">>, <<"p", "o", "m", ".", "x", "m", "l">>, <<"G", "e", "m", "f", "i", "l", "e">>}
TwoMarkerNames == {a \o <<"/">> \o b : a \in TwoMarkerParts, b \in TwoMarkerParts}
PlainNames ==
    {<<>>,
     <<"R", "E", "A", "D", "M", "E", ".", "m", "d">>,
     <<"m", "a", "i", "n", ".", "g", "o">>,
     <<"p", "o", "m", ".", "x", "m">>,
     <<"g", "o", ".", "s", "u">>,
     <<"p", "a", "c", "k", "a", "g", "e", ".", "j", "s", "o">>,
     <<"C", "a", "r", "g", "o", ".", "t", "o", "m">>,
     <<"c", "s", "p", "r", "o", "j">>,
     <<"g", "e", "m", "s", "p", "e", "c">>}
FileNames ==
    UNION {NamesOf(m) : m \in MarkerNames} \cup TwoMarkerNames \cup PlainNames

CallDetectPackageType ==
    /\ pc = "call"
    /\ ret' = <<DetectPackageType(arg[1]), DetectPackageType(arg[2])>>
    /\ pc' = "done"
    /\ UNCHANGED <<fn, cfg, handler, ctx, watch, child, status, want, wrote, pipe,
                   capSt, capLine, capBuf, console, calls, result, retErr, arg, held>>

\* two calls, each with its own name
InitDetect ==
    /\ RunnerIdle
    /\ fn = "DetectPackageType"
    /\ pc = "call"
    /\ arg \in FileNames \X FileNames
    /\ ret = NilPtr

NextDetect == CallDetectPackageType

SpecDetect == InitDetect /\ [][NextDetect]_vars

\* ------------------------------------------------------------ the claims

Returned == pc = "returned"
Started == child # "none"
ExitedOnOwn == child = "exited"
KilledByTimeout == child = "killed"
BothDone == \A s \in Streams : capSt[s] = "done"

\* The lines of a byte sequence: split at each line feed, a carriage return
\* that ends a line belongs to its terminator, and a non-empty rest with no
\* terminator is the last line.
RECURSIVE SplitLines(_, _)
SplitLines(bytes, cur) ==
    IF bytes = <<>>
    THEN IF cur = <<>> THEN <<>> ELSE <<DropCR(cur)>>
    ELSE IF Head(bytes) = LF
         THEN <<DropCR(cur)>> \o SplitLines(Tail(bytes), <<>>)
         ELSE SplitLines(Tail(bytes), Append(cur, Head(bytes)))
LinesOf(bytes) == SplitLines(bytes, <<>>)

\* the handler invocations of one stream, in order
RECURSIVE CallsOf(_, _)
CallsOf(cs, isError) ==
    IF cs = <<>> THEN <<>>
    ELSE IF Head(cs)[2] = isError
         THEN <<Head(cs)[1]>> \o CallsOf(Tail(cs), isError)
         ELSE CallsOf(Tail(cs), isError)

\* C1: once the child was started, cmd.Wait is called only after both
\* capturers have finished, and the function has returned only after both
\* capturers have finished and the child has exited or been killed.
C1_JoinBeforeWait ==
    /\ pc = "cmdwait" => BothDone
    /\ (Returned /\ Started) => (BothDone /\ child \in {"exited", "killed"})

\* a started run has returned with output captured from both streams
C1_Witness ==
    /\ Returned
    /\ Started
    /\ Len(wrote["stdout"]) > 0
    /\ Len(wrote["stderr"]) > 0
    /\ result # NilPtr

\* C2: when the child has written its lines and exited and the function has
\* returned, the returned Stdout holds exactly the lines written to stdout and
\* the returned Stderr exactly the lines written to stderr, in order, in
\* every mode.
C2_AllLinesCaptured ==
    (Returned /\ ExitedOnOwn) =>
        /\ result # NilPtr
        /\ LinesOf(result[1].Stdout) = LinesOf(wrote["stdout"])
        /\ LinesOf(result[1].Stderr) = LinesOf(wrote["stderr"])

C4_TimeoutIsError ==
    (Returned /\ KilledByTimeout) =>
        (result # NilPtr /\ result[1].Error # Nil /\ result[1].ExitCode = 0)

\* C5: a child that starts and exits on its own with status c yields
\* ExitCode = c, Error = nil and a nil error return.
C5_ExitIsNotError ==
    (Returned /\ ExitedOnOwn) =>
        (result # NilPtr /\ result[1].ExitCode = status /\ result[1].Error = Nil /\ retErr = Nil)

\* C6: on every exit path the caller gets an ExecResult that reports a
\* duration; a start failure is its top-level Error, with ExitCode 0.
C6_AlwaysADuration ==
    Returned =>
        /\ result # NilPtr
        /\ result[1].DurationMs # Nil
        /\ ~Started => (result[1].Error # Nil /\ result[1].ExitCode = 0)

\* C7: with no timeout, the child is never asleep in a write to a full pipe
\* whose capturer has stopped reading (a state nothing leads out of: the pipe
\* stays full, the child stays in write(2) and cmd.Wait never returns).
C7_NoWriterLeftBlocked ==
    cfg.Timeout = 0 =>
        ~(/\ child = "blocked"
          /\ Len(pipe[want[1]]) >= PipeCap
          /\ capSt[want[1]] = "done")

\* C8: StreamScanner with a handler: when the child has exited and the
\* function has returned, the handler has been called exactly once per line
\* of each stream, with the text without terminator, isError telling the
\* stream, in the order of emission within each stream.
C8_HandlerSeesEveryLine ==
    (Returned /\ ExitedOnOwn /\ fn = "StreamScanner" /\ handler # "nil") =>
        /\ CallsOf(calls, FALSE) = LinesOf(wrote["stdout"])
        /\ CallsOf(calls, TRUE) = LinesOf(wrote["stderr"])

\* the caller's environment as a map, with cfg.Env laid over it
Overlay(environ, env) ==
    LET base == ChildEnv([Env |-> NilPtr], environ)
    IN [k \in DOMAIN base \cup DOMAIN env |-> IF k \in DOMAIN env THEN env[k] ELSE base[k]]

\* C9: in both functions the child gets the given arguments and working
\* directory, and the caller's environment with every key of cfg.Env set to
\* its cfg.Env value.
C9_EnvOverridesApplied ==
    pc = "done" =>
        /\ ret[1].Path = arg.Binary
        /\ ret[1].Args = arg.Args
        /\ ChildDir(ret[1]) = (IF arg.WorkDir = "" THEN CallerDir ELSE arg.WorkDir)
        /\ ChildEnv(ret[1], arg.Environ) = Overlay(arg.Environ, arg.Env)

\* the positions of the order NVD, GHSA, RedHat, Bitnami whose source is in
\* the mapping with a score above zero
FixedOrder == <<"nvd", "ghsa", "redhat", "bitnami">>
Usable(m) == {i \in 1 .. 4 : FixedOrder[i] \in DOMAIN m /\ m[FixedOrder[i]].Score > 0}
FirstUsable(m) == CHOOSE i \in Usable(m) : \A j \in Usable(m) : i <= j

\* C10: SelectBestCVSS returns the record of the first source of the order
\* NVD, GHSA, RedHat, Bitnami that is in the mapping with a score above zero,
\* whatever the other scores, and no record when there is none.
C10_FirstPositiveByPriority ==
    pc = "done" =>
        IF Usable(arg) = {}
        THEN ret = NilPtr
        ELSE ret = Ptr(arg[FixedOrder[FirstUsable(arg)]])

\* {ghsa: 5.0, redhat: 9.0} has yielded the GHSA record
C10_Witness ==
    /\ pc = "done"
    /\ DOMAIN arg = {"ghsa", "redhat"}
    /\ arg["ghsa"].Score = 50
    /\ arg["redhat"].Score = 90
    /\ ret = Ptr(CVSSRecord("ghsa", 50))

\* C18: when ExecuteScanner or StreamScanner has returned, on every exit path,
\* the caller holds nothing it acquired for the run: no pipe descriptor, no
\* process handle, and the timeout context has been cancelled.
TimerReleased == ctx \in {"none", "canceled"}
C18_AllReleasedOnReturn == Returned => held = {} /\ TimerReleased

\* the positions at which two argument tuples differ
DiffAt(a, b) == {i \in 1 .. 3 : a[i] # b[i]}

\* C11: GenerateSastFingerprint and GenerateScaFingerprint give the same
\* digest for the same arguments, and different digests (the hash taken as
\* collision-free) for two argument tuples that differ in exactly one position.
C11_SameInSameOutOneOffDiffers ==
    pc = "done" =>
        /\ arg[1] = arg[2] => ret[1] = ret[2]
        /\ Cardinality(DiffAt(arg[1], arg[2])) = 1 => ret[1] # ret[2]

\* two findings of one file and line under the rules "1" and ":" have got
\* different digests
C11_Witness ==
    /\ pc = "done"
    /\ fn = "GenerateSastFingerprint"
    /\ arg = << <<<<"1">>, <<"1">>, 11>>, <<<<"1">>, <<":">>, 11>> >>
    /\ ret[1] # ret[2]
    /\ ret[1] = hashString(<<"1", ":", "1", ":", "1", "1">>)

\* C20: two argument tuples of GenerateSastFingerprint, or of
\* GenerateScaFingerprint, that are not equal component by component hash
\* different canonical strings, whatever the strings contain (the delimiter
\* included): the digests of unequal tuples differ.
C20_CanonicalStringInjective ==
    pc = "done" => (arg[1] # arg[2] => ret[1] # ret[2])

\* the five levels from the least to the most severe
Rank(level) ==
    CASE level = "info" -> 0
      [] level = "low" -> 1
      [] level = "medium" -> 2
      [] level = "high" -> 3
      [] level = "critical" -> 4

\* the level the bands give a score in thousandths: each band has its lower
\* bound in it, the band of low excepted, which starts above zero
InBand(level, s) ==
    CASE level = "critical" -> s >= 9000
      [] level = "high" -> s >= 7000 /\ s < 9000
      [] level = "medium" -> s >= 4000 /\ s < 7000
      [] level = "low" -> s > 0 /\ s < 4000
      [] level = "info" -> s <= 0

\* the examples of the boundaries: 9.0, 8.999, 7.0, 6.999, 4.0, 3.999, 0.001,
\* 0 and a negative score
BoundaryExamples ==
    <<<<9000, "critical">>, <<8999, "high">>, <<7000, "high">>,
      <<6999, "medium">>, <<4000, "medium">>, <<3999, "low">>, <<1, "low">>,
      <<0, "info">>, <<0 - 1000, "info">>>>

\* C12: SeverityFromCVSS gives every score the one level whose band holds it
\* (lower bounds inclusive, low starting above zero, info at zero and below),
\* the boundary examples come out as listed, and a score that is not smaller
\* never gets a smaller rank.
C12_BandsAndMonotonic ==
    pc = "done" =>
        /\ \A i \in 1 .. 2 :
            /\ ret[i] \in {"info", "low", "medium", "high", "critical"}
            /\ InBand(ret[i], arg[i])
            /\ \A k \in 1 .. Len(BoundaryExamples) :
                  arg[i] = BoundaryExamples[k][1] => ret[i] = BoundaryExamples[k][2]
        /\ arg[1] <= arg[2] => Rank(ret[1]) <= Rank(ret[2])

\* 8.999 has come out high and 9.0 critical
C12_Witness ==
    /\ pc = "done"
    /\ fn = "SeverityFromCVSS"
    /\ arg = <<8999, 9000>>
    /\ ret = <<"high", "critical">>

\* the level of each word of the vocabulary, in upper case; a word that is not
\* in the vocabulary has the level info
LevelOfWord(w) ==
    CASE w = <<"C", "R", "I", "T", "I", "C", "A", "L">> -> "critical"
      [] w = <<"H", "I", "G", "H">> -> "high"
      [] w = <<"E", "R", "R", "O", "R">> -> "high"
      [] w = <<"M", "E", "D", "I", "U", "M">> -> "medium"
      [] w = <<"M", "O", "D", "E", "R", "A", "T", "E">> -> "medium"
      [] w = <<"W", "A", "R", "N", "I", "N", "G">> -> "medium"
      [] w = <<"L", "O", "W">> -> "low"
      [] OTHER -> "info"

\* C13: NormalizeSeverity gives every input one of the five levels: the level
\* of the word it is, white space around it and letter case ignored, and info
\* for INFO, INFORMATIONAL, NOTE and every input that is no word of the
\* vocabulary, the empty one included.
C13_TotalNormalisation ==
    pc = "done" =>
        /\ ret \in {"info", "low", "medium", "high", "critical"}
        /\ ret = LevelOfWord(arg.word)

\* " \nModerate\r\n" has come out medium
C13_Witness ==
    /\ pc = "done"
    /\ fn = "NormalizeSeverity"
    /\ arg.text = <<" ", LF>> \o <<"M", "o", "d", "e", "r", "a", "t", "e">> \o <<CR, LF>>
    /\ ret = "medium"

\* the first line of an output: the bytes before its first line terminator,
\* all of it when it has none
RECURSIVE FirstLine(_)
FirstLine(out) ==
    IF out = <<>> \/ Head(out) \in {LF, CR}
    THEN <<>>
    ELSE <<Head(out)>> \o FirstLine(Tail(out))

\* C14: CheckBinaryInstalled returns a nil error on every path; when the
\* probe fails it returns not installed and an empty version; when it
\* succeeds it returns installed and the first line of the output, whatever
\* the output; with no versionArgs it runs the binary with --version alone.
C14_NoErrorAndFirstLine ==
    pc = "done" =>
        /\ ret.err = Nil
        /\ arg.failed => ~ret.installed /\ ret.version = <<>>
        /\ ~arg.failed => ret.installed /\ ret.version = FirstLine(arg.output)
        /\ arg.versionArgs = <<>> => ret.ran = <<"--version">>

\* what the two functions are said to do: up to Limit bytes the placeholder,
\* above it Edge bytes of each end around Mask
Placeholder == <<"*", "*", "*", "*">>
Limit == IF fn = "MaskSecret" THEN 8 ELSE 10
Edge == IF fn = "MaskSecret" THEN 3 ELSE 4
Mask == IF fn = "MaskSecret" THEN <<"*", "*", "*", "*">> ELSE <<".", ".", ".">>
ShownFront == 1 .. Edge
ShownBack == (Len(arg) - Edge + 1) .. Len(arg)

\* C15: MaskSecret (MaskAPIKey) returns the placeholder "****" for every
\* input of at most 8 (10) bytes, and otherwise the first 3 (4) bytes, a fixed
\* mask and the last 3 (4) bytes; the positions shown at the two ends do not
\* overlap and some position between them is shown by neither.
C15_MiddleNeverShown ==
    pc = "done" =>
        IF Len(arg) <= Limit
        THEN ret = Placeholder
        ELSE /\ ret = [i \in ShownFront |-> arg[i]] \o Mask
                        \o [i \in 1 .. Edge |-> arg[Len(arg) - Edge + i]]
             /\ ShownFront \cap ShownBack = {}
             /\ (1 .. Len(arg)) \ (ShownFront \cup ShownBack) # {}

\* a secret of nine bytes has come out as its first three bytes, the mask and
\* its last three bytes
C15_Witness ==
    /\ pc = "done"
    /\ fn = "MaskSecret"
    /\ arg = <<"x", "y", "y", "x", "x", "x", "y", "x", "y">>
    /\ ret = <<"x", "y", "y", "*", "*", "*", "*", "y", "x", "y">>

\* the known markers, each with the identifier of its ecosystem
MarkerTable ==
    {<<<<"p", "o", "m", ".", "x", "m", "l">>, "maven">>,
     <<<<".", "p", "o", "m">>, "maven">>,
     <<<<"p", "a", "c", "k", "a", "g", "e", ".", "j", "s", "o", "n">>, "npm">>,
     <<<<"p", "a", "c", "k", "a", "g", "e", "-", "l", "o", "c", "k", ".", "j", "s", "o", "n">>, "npm">>,
     <<<<"y", "a", "r", "n", ".", "l", "o", "c", "k">>, "npm">>,
     <<<<"r", "e", "q", "u", "i", "r", "e", "m", "e", "n", "t", "s", ".", "t", "x", "t">>, "pip">>,
     <<<<"s", "e", "t", "u", "p", ".", "p", "y">>, "pip">>,
     <<<<"p", "i", "p", "f", "i", "l", "e">>, "pip">>,
     <<<<"p", "y", "p", "r", "o", "j", "e", "c", "t", ".", "t", "o", "m", "l">>, "pip">>,
     <<<<"g", "o", ".", "m", "o", "d">>, "gomod">>,
     <<<<"g", "o", ".", "s", "u", "m">>, "gomod">>,
     <<<<"c", "a", "r", "g", "o", ".", "t", "o", "m", "l">>, "cargo">>,
     <<<<"c", "a", "r", "g", "o", ".", "l", "o", "c", "k">>, "cargo">>,
     <<<<".", "c", "s", "p", "r", "o", "j">>, "nuget">>,
     <<<<"p", "a", "c", "k", "a", "g", "e", "s", ".", "c", "o", "n", "f", "i", "g">>, "nuget">>,
     <<<<".", "n", "u", "s", "p", "e", "c">>, "nuget">>,
     <<<<"g", "e", "m", "f", "i", "l", "e">>, "gem">>,
     <<<<".", "g", "e", "m", "s", "p", "e", "c">>, "gem">>,
     <<<<"c", "o", "m", "p", "o", "s", "e", "r", ".", "j", "s", "o", "n">>, "composer">>,
     <<<<"c", "o", "m", "p", "o", "s", "e", "r", ".", "l", "o", "c", "k">>, "composer">>}

\* the marker stands somewhere in the name, in whatever letter case
OccursIn(marker, name) ==
    \E off \in 0 .. (Len(name) - Len(marker)) :
        \A k \in 1 .. Len(marker) :
            name[off + k] \in {marker[k], ToUpperChar(marker[k])}
MarkersIn(name) == {e \in MarkerTable : OccursIn(e[1], name)}

\* C16: DetectPackageType returns the identifier of a known marker that
\* occurs in the name in whatever letter case, the empty value when no known
\* marker occurs in it, and the same value for two names with the same
\* lower-cased form.
C16_MarkerDecidesType ==
    pc = "done" =>
        /\ \A i \in 1 .. 2 :
              IF MarkersIn(arg[i]) = {}
              THEN ret[i] = ""
              ELSE \E e \in MarkersIn(arg[i]) : ret[i] = e[2]
        /\ ToLower(arg[1]) = ToLower(arg[2]) => ret[1] = ret[2]

\* a/go.sum has come out as Go modules, and so has GO.SUM
C16_Witness ==
    /\ pc = "done"
    /\ fn = "DetectPackageType"
    /\ arg = <<<<"a", "/", "g", "o", ".", "s", "u", "m">>, <<"G", "O", ".", "S", "U", "M">>>>
    /\ ret = <<"gomod", "gomod">>

\* the bytes a capturer has taken out of its stream
ReadFrom(s) == SubSeq(wrote[s], 1, Len(wrote[s]) - Len(pipe[s]))

\* C17: a capturer that has ended (captureOutput or streamWithHandler)
\* returns exactly the bytes it has read from its stream, line terminators
\* included, and a last line with no terminator too.
C17_ReturnsBytesRead ==
    \A s \in Streams : capSt[s] = "done" => capBuf[s] = ReadFrom(s)

\* a step that writes the buffer of stream s, and a step in which the caller
\* reads the two buffers (into the result it returns)
WritesBuffer(s) == capBuf'[s] # capBuf[s]
CallerReadsBuffers == result' # result

InHandler(s) == capSt[s] = "inhandler"
HandlerCallStarts == calls' # calls

\* C21: when StreamScanner has returned, no call of the handler is in
\* progress and none starts afterwards, whichever way the run ended.
C21_NoHandlerCallAfterReturn ==
    [][Returned => /\ \A s \in Streams : ~InHandler(s) /\ ~InHandler(s)'
                   /\ ~HandlerCallStarts]_vars

\* StreamScanner has returned after a timeout kill, with calls of the handler
\* for lines of both streams made and over
C21_Witness ==
    /\ Returned
    /\ fn = "StreamScanner"
    /\ handler # "nil"
    /\ KilledByTimeout
    /\ \E i \in 1 .. Len(calls) : calls[i][2]
    /\ \E i \in 1 .. Len(calls) : ~calls[i][2]
    /\ \A s \in Streams : ~InHandler(s)

====
